---- MODULE Spec2Model ----
(***************************************************************************)
(* Model of src/demo.py: the Streamlit dashboard of the cold-climate rural *)
(* house design system, its sidebar widgets, its script run, and the       *)
(* metrics function calculate_metrics with the radar scores derived from   *)
(* its result.                                                             *)
(*                                                                         *)
(* ARITHMETIC.  The program computes with decimal constants and a few      *)
(* divisions.  The model computes the same values exactly, as integers     *)
(* over a stated denominator (fixed point), so that no rounding is         *)
(* modelled.  The inputs are carried in widget steps:                      *)
(*     w, d      site width and depth in half metres   (w = 2 * metres)    *)
(*     ins       insulation in mm                                          *)
(*     wwr       window ratio in twentieths            (wwr = 20 * ratio)  *)
(*     pv_r      photovoltaic ratio in twentieths      (pv_r = 20 * ratio) *)
(* and the factors of a location or room type in twentieths (1.30 = 26).   *)
(* With A = w * d (four times the floor area) the values are carried as    *)
(*     eui, net_eui, base_eui            value * 80 * A       (EuiDen)     *)
(*     pv_gen                            value * 320                       *)
(*     cost, base_cost                   value * 8000                      *)
(*     saving_year, saved_money          value * 6400                      *)
(*     carbon_* (tonnes)                 value * 6400000, a Wide           *)
(*     pmv                               value * 200                       *)
(*     se                                value * 800 * A                   *)
(*     scom                              value * 10                        *)
(*     spv                               value * 2                         *)
(* and the results of a division (shape, payback, percent_c, sc, sroi, ssp, *)
(* per_capita_carbon) as a Ratio [n, d] of two Wides, the exact quotient.  *)
(* A Wide <<hi, lo>> is the integer hi * 10^5 + lo with 0 <= lo < 10^5:    *)
(* the carbon values need 35 bits.                                         *)
(***************************************************************************)
EXTENDS Integers, Sequences, FiniteSets, TLC

Max(x, y) == IF x >= y THEN x ELSE y
Min(x, y) == IF x <= y THEN x ELSE y
Abs(x) == IF x >= 0 THEN x ELSE -x

(***************************************************************************)
(* Wide integers and exact ratios.                                         *)
(***************************************************************************)
WideBase == 10 ^ 5
WNorm(h, l) == <<h + (l \div WideBase), l % WideBase>>
W(i) == WNorm(0, i)
WAdd(x, y) == WNorm(x[1] + y[1], x[2] + y[2])
WSub(x, y) == WNorm(x[1] - y[1], x[2] - y[2])
\* x * k, for 0 <= k <= 20000
WScale(x, k) == WNorm(x[1] * k, x[2] * k)
WLess(x, y) == x[1] < y[1] \/ (x[1] = y[1] /\ x[2] < y[2])
WLeq(x, y) == x = y \/ WLess(x, y)
WPos(x) == WLess(W(0), x)

\* the ratio n / d of two Wides, d > 0
Ratio(n, d) == [n |-> n, d |-> d]
RInt(k) == Ratio(W(k), W(1))
\* r * k and r * (p / q), for small naturals
RScale(r, k) == Ratio(WScale(r.n, k), r.d)
RScaleFrac(r, p, q) == Ratio(WScale(r.n, p), WScale(r.d, q))
\* k - r
RIntMinus(k, r) == Ratio(WSub(WScale(r.d, k), r.n), r.d)
\* p/q - r
RFracMinus(p, q, r) == Ratio(WSub(WScale(r.d, p), WScale(r.n, q)), WScale(r.d, q))
\* comparisons of a ratio with an integer k >= 0
RLessInt(r, k) == WLess(r.n, WScale(r.d, k))
RLeqInt(r, k) == WLeq(r.n, WScale(r.d, k))
RGreaterInt(r, k) == WLess(WScale(r.d, k), r.n)
RGeqInt(r, k) == WLeq(WScale(r.d, k), r.n)
REqInt(r, k) == r.n = WScale(r.d, k)
RMinInt(k, r) == IF RLeqInt(r, k) THEN r ELSE Ratio(WScale(r.d, k), r.d)
RMaxInt(k, r) == IF RGeqInt(r, k) THEN r ELSE Ratio(WScale(r.d, k), r.d)

(***************************************************************************)
(* Bounds of the model: how many values of each widget range are explored  *)
(* (always its two ends, spread evenly between them, plus the default).    *)
(***************************************************************************)
NSite == 2
NInsulation == 2
NWindow == 2
NPv == 2
NPopulation == 1
MaxApiInsSteps == 20

\* n values of lo..hi, evenly spread, both ends included when n >= 2
Samples(lo, hi, n) ==
    IF n <= 1 \/ hi <= lo THEN {lo}
    ELSE {lo + ((hi - lo) * k) \div (n - 1) : k \in 0..(n - 1)}

(***************************************************************************)
(* Sidebar widgets: ranges, steps and defaults.                            *)
(***************************************************************************)
Locations == {"chengde", "shijiazhuang", "cangzhou", "tianjin"}
RoomTypes == {"two_room", "three_room", "four_room"}
\* st.number_input(8.0, 25.0, default, 0.5), in half metres
SiteValues(default) == Samples(16, 50, NSite) \cup {default}
\* st.slider(50, 200, 150, 10)
InsulationValues == {50 + 10 * k : k \in Samples(0, 15, NInsulation)} \cup {150}
\* st.slider(0.2, 0.8, 0.45, 0.05), in twentieths
WindowValues == Samples(4, 16, NWindow) \cup {9}
\* st.slider(10, 80, 50, 5), in percent
PvSliderValues == {10 + 5 * k : k \in Samples(0, 14, NPv)} \cup {50}
\* st.slider(1, 8, 3)
PopulationValues == Samples(1, 8, NPopulation) \cup {3}

\* pv_ratio = slider / 100.0 when the checkbox is set, else 0.0; in twentieths
\* the slider's value used whether or not the checkbox is set
pv_ratio_stale(use, slider) == slider \div 5
pv_ratio(use, slider) == IF use THEN slider \div 5 ELSE 0

(***************************************************************************)
(* calculate_metrics(w, d, ins, wwr, room_type, pv_r, pop, loc).  The      *)
(* arguments are the record a; each local of the function is an operator   *)
(* of a, under the local's name.                                           *)
(***************************************************************************)
Args(w, d, ins, wwr, room_type, pv_r, pop, loc) ==
    [w |-> w, d |-> d, ins |-> ins, wwr |-> wwr, room_type |-> room_type,
     pv_r |-> pv_r, pop |-> pop, loc |-> loc]

\* area = w * d, times 4
area(a) == a.w * a.d
\* 2 * (w + d), in metres
perimeter(a) == a.w + a.d
\* shape_coeff = (2 * (w + d)) / area
shape_coeff(a) == Ratio(W(4 * perimeter(a)), W(area(a)))

\* climate_factor: 1.30, 1.05, 1.0, in twentieths
climate_factor(a) ==
    IF a.loc = "chengde" THEN 26
    ELSE IF a.loc = "shijiazhuang" THEN 21
    ELSE 20
\* solar_factor: 1.05, 1.0, 1.0, in twentieths
solar_factor(a) ==
    IF a.loc = "chengde" THEN 21
    ELSE IF a.loc = "shijiazhuang" THEN 20
    ELSE 20
\* r_factor: 1.0, 1.15, 1.35, in twentieths
r_factor(a) ==
    IF a.room_type = "two_room" THEN 20
    ELSE IF a.room_type = "three_room" THEN 23
    ELSE 27

\* the denominator of every EUI value
EuiDen(a) == 80 * area(a)
\* base_eui_val = 140 * climate_factor = 7 * (20 * climate_factor)
base_eui_val(a) == 7 * climate_factor(a) * EuiDen(a)
\* base_eui_val - (ins * 0.35) + (shape_coeff * 15) + abs(wwr - 0.45) * 20:
\*   ins * 0.35 * 80 A = 28 ins A;  shape_coeff * 15 * 80 A = 4800 * perimeter;
\*   abs(wwr - 0.45) * 20 = |20 wwr - 9|
design_eui_raw(a) ==
    base_eui_val(a) - 28 * a.ins * area(a) + 4800 * perimeter(a)
        + Abs(a.wwr - 9) * EuiDen(a)
\* the insulation term added instead of subtracted
design_eui_rising(a) ==
    Max(45 * EuiDen(a),
        base_eui_val(a) + 28 * a.ins * area(a) + 4800 * perimeter(a)
            + Abs(a.wwr - 9) * EuiDen(a))
\* design_eui = max(45, ...)
design_eui(a) == Max(45 * EuiDen(a), design_eui_raw(a))

\* the coverage ratio left out of the product (the whole usable roof)
pv_gen_full_roof(a) == 13 * area(a) * 20 * solar_factor(a)
\* pv_gen = area * 0.5 * pv_r * 130 * solar_factor
\*        = (A/4) (1/2) (pv_r/20) 130 (solar/20) = 13 A pv_r solar / 320
pv_gen(a) == 13 * area(a) * a.pv_r * solar_factor(a)

\* the operands of the subtraction exchanged, and no clamp
net_eui_swapped(a) == pv_gen(a) - design_eui(a)
\* net_eui = max(0, design_eui - pv_gen/area):
\*   (pv_gen/area) * 80 A = (13 A pv_r solar / 320) (4/A) 80 A = 13 A pv_r solar
net_eui(a) == Max(0, design_eui(a) - pv_gen(a))

\* grid_factor = 0.5810, per mille
grid_factor == 581
life_span == 50
\* (eui * area * grid_factor * life_span) / 1000 in tonnes, times 6400000,
\* of an EUI over EuiDen:  (e/(80 A)) (A/4) (581/1000) 50 / 1000 = 581 e / 6400000
op_carbon(e) == WScale(W(e), (grid_factor * life_span) \div 50)
base_op_c(a) == op_carbon(base_eui_val(a))
\* the design's operational carbon taken from base_eui_val, not net_eui
design_op_c_of_base(a) == op_carbon(base_eui_val(a))
design_op_c(a) == op_carbon(net_eui(a))
\* base_mat_c = area * 0.35 = 7 A / 80
base_mat_c(a) == W(560000 * area(a))
\* design_mat_c = area * (0.20 + ins * 0.0005) * r_factor
\*              = (A/4) ((400 + ins)/2000) (r/20) = A (400 + ins) r / 160000
\* if pv_r > 0: design_mat_c += area * 0.5 * pv_r * 0.08 = A pv_r / 2000
design_mat_c(a) ==
    WAdd(WScale(W(area(a) * (400 + a.ins)), 40 * r_factor(a)),
         IF a.pv_r > 0 THEN W(3200 * area(a) * a.pv_r) ELSE W(0))
base_total(a) == WAdd(base_op_c(a), base_mat_c(a))
design_total(a) == WAdd(design_op_c(a), design_mat_c(a))

\* base_cost = 10 + area * 0.10 = 10 + A/40
base_cost(a) == 80000 + 200 * area(a)
\* design_cost = (10 + area * 0.13 + ins * 0.05) * r_factor
\*             = (4000 + 13 A + 20 ins) r / 8000
\* if pv_r > 0: design_cost += area * 0.5 * pv_r * 0.04 = A pv_r / 4000
design_cost(a) ==
    (4000 + 13 * area(a) + 20 * a.ins) * r_factor(a)
        + (IF a.pv_r > 0 THEN 2 * area(a) * a.pv_r ELSE 0)

\* the operands of the subtraction exchanged
saving_year_swapped(a) == 11 * (net_eui(a) - base_eui_val(a))
\* saving_year = (base_eui_val - net_eui) * area * 0.55
\*   = ((b - n)/(80 A)) (A/4) (11/20) = 11 (b - n) / 6400
saving_year(a) == 11 * (base_eui_val(a) - net_eui(a))

\* (cost difference, over 8000) * 10000 / (saving, over 6400)
\*   = (c * 10000 * 4) / (s * 5)
payback_quotient(c, s) == Ratio(WScale(WScale(W(c), 10000), 4), WScale(W(s), 5))
\* the factor 10000 left out
payback_no_unit(a) ==
    IF saving_year(a) > 0
    THEN Ratio(WScale(W(design_cost(a) - base_cost(a)), 4),
               WScale(W(saving_year(a)), 5))
    ELSE RInt(99)
\* payback = (design_cost - base_cost) * 10000 / saving_year
\*           if saving_year > 0 else 99
payback(a) ==
    IF saving_year(a) > 0
    THEN payback_quotient(design_cost(a) - base_cost(a), saving_year(a))
    ELSE RInt(99)

\* pmv = -1.5 + (ins / 200) * 1.0 + (0.5 - abs(wwr - 0.45)), times 200
pmv(a) == -300 + a.ins + (100 - 10 * Abs(a.wwr - 9))

calculate_metrics(a) ==
    [eui |-> design_eui(a), net_eui |-> net_eui(a), cost |-> design_cost(a),
     payback |-> payback(a), shape |-> shape_coeff(a),
     carbon_total |-> design_total(a), carbon_base |-> base_total(a),
     pv_gen |-> pv_gen(a), pmv |-> pmv(a),
     carbon_op |-> design_op_c(a), carbon_mat |-> design_mat_c(a),
     carbon_mat_base |-> base_mat_c(a),
     \* design_total / (pop * life_span), times 6400000
     per_capita_carbon |-> Ratio(design_total(a), W(a.pop * life_span)),
     climate_factor |-> climate_factor(a)]

(***************************************************************************)
(* The results page: what the script derives from metrics (the dict that   *)
(* calculate_metrics returned), the arguments a it was called with (the    *)
(* widget values the script reads again) being at hand.                    *)
(***************************************************************************)
\* percent_c = (1 - carbon_total / carbon_base) * 100
percent_c(m) ==
    Ratio(WScale(WSub(m.carbon_base, m.carbon_total), 100), m.carbon_base)
\* sc = min(100, percent_c * 2.5)
sc(m) == RMinInt(100, RScaleFrac(percent_c(m), 5, 2))
\* se = max(60, (140 * climate_factor - net_eui) * 1.3), times 10 * EuiDen
se(m, a) ==
    Max(60 * 10 * EuiDen(a),
        13 * (7 * m.climate_factor * EuiDen(a) - m.net_eui))
\* sroi = max(50, 150 - payback * 10)
sroi(m) == RMaxInt(50, RIntMinus(150, RScale(m.payback, 10)))
\* ssp = max(70, (0.6 - shape) * 300), with 0.6 = 3/5
ssp(m) == RMaxInt(70, RScale(RFracMinus(3, 5, m.shape), 300))
\* scom = max(60, 100 - abs(pmv) * 20), times 10
scom(m) == Max(60 * 10, 100 * 10 - Abs(m.pmv))
\* spv = min(100, pv_ratio * 150), times 2
spv(a) == Min(100 * 2, a.pv_r * 15)
\* vals = [sc, se, spv, sroi, ssp, scom]
radar(m, a) ==
    [sc |-> sc(m), se |-> se(m, a), spv |-> spv(a), sroi |-> sroi(m),
     ssp |-> ssp(m), scom |-> scom(m)]

\* saved_money = pv_gen * 0.5 + (140 * climate_factor - net_eui)
\*                               * site_width * site_depth * 0.55, times 6400
saved_money(m, a) ==
    10 * m.pv_gen + 11 * (7 * m.climate_factor * EuiDen(a) - m.net_eui)
\* the verdict on the payback period: < 10, < 15, else
payback_verdict(m) ==
    IF RLessInt(m.payback, 10) THEN "success"
    ELSE IF RLessInt(m.payback, 15) THEN "info"
    ELSE "warning"

(***************************************************************************)
(* The dashboard.  Streamlit runs the script from top to bottom when the   *)
(* page is loaded and after every interaction; st.button returns True only *)
(* in the run that its click caused.  A state is the state at the end of a *)
(* script run: the widget values, what caused the run, and what it drew.   *)
(***************************************************************************)
VARIABLES
    location, population, target_room_type, site_width, site_depth,
    insulation, window_ratio, use_pv, pv_slider,
    run_btn,        \* the value st.button returned in this run
    trigger,        \* what caused this run: "load", "widget" or "button"
    page,           \* "intro" (the prompt) or "results" (KPIs and tabs)
    metrics,        \* the dict the run computed, NoMetrics when it did not
    args, ret       \* a direct call of calculate_metrics and what it returned

widgets == <<location, population, target_room_type, site_width, site_depth,
             insulation, window_ratio, use_pv, pv_slider>>
run == <<run_btn, trigger, page, metrics>>
call == <<args, ret>>
vars == <<widgets, run, call>>

NoMetrics == [none |-> TRUE]
NoArgs == [none |-> TRUE]

\* the arguments of the call at line 156, from the widgets
InputsOf(loc, pop, room, w, d, ins, wwr, use, slider) ==
    Args(w, d, ins, wwr, room, pv_ratio(use, slider), pop, loc)
Inputs ==
    InputsOf(location, population, target_room_type, site_width, site_depth,
             insulation, window_ratio, use_pv, pv_slider)

\* a run without the click leaves the results of an earlier run on the page
MainStale(btn, a, old) ==
    IF ~btn THEN old
    ELSE <<"results", calculate_metrics(a)>>
\* if not run_btn: the prompt; else: metrics = calculate_metrics(...) and
\* the results page.  What the run leaves: <<page, metrics>>.
Main(btn, a, old) ==
    IF ~btn THEN <<"intro", NoMetrics>>
    ELSE <<"results", calculate_metrics(a)>>

\* one script run, caused by `cause`, over the widget values of the next state
ScriptRun(cause, a) ==
    /\ run_btn' = (cause = "button")
    /\ trigger' = cause
    /\ LET out == Main(cause = "button", a, <<page, metrics>>) IN
        /\ page' = out[1]
        /\ metrics' = out[2]
    /\ UNCHANGED call

\* the first run of the script: every widget at its default, no click
PageLoad ==
    /\ location = "chengde"
    /\ population = 3
    /\ target_room_type = "three_room"
    /\ site_width = 26
    /\ site_depth = 20
    /\ insulation = 150
    /\ window_ratio = 9
    /\ use_pv = TRUE
    /\ pv_slider = 50
    /\ run_btn = FALSE
    /\ trigger = "load"
    /\ page = "intro"
    /\ metrics = NoMetrics

Init ==
    /\ PageLoad
    /\ args = NoArgs
    /\ ret = NoMetrics

ChangeLocation ==
    \E v \in Locations \ {location} :
        /\ location' = v
        /\ UNCHANGED <<population, target_room_type, site_width, site_depth,
                       insulation, window_ratio, use_pv, pv_slider>>
        /\ ScriptRun("widget", Inputs')

ChangePopulation ==
    \E v \in PopulationValues \ {population} :
        /\ population' = v
        /\ UNCHANGED <<location, target_room_type, site_width, site_depth,
                       insulation, window_ratio, use_pv, pv_slider>>
        /\ ScriptRun("widget", Inputs')

ChangeRoomType ==
    \E v \in RoomTypes \ {target_room_type} :
        /\ target_room_type' = v
        /\ UNCHANGED <<location, population, site_width, site_depth,
                       insulation, window_ratio, use_pv, pv_slider>>
        /\ ScriptRun("widget", Inputs')

ChangeSiteWidth ==
    \E v \in SiteValues(26) \ {site_width} :
        /\ site_width' = v
        /\ UNCHANGED <<location, population, target_room_type, site_depth,
                       insulation, window_ratio, use_pv, pv_slider>>
        /\ ScriptRun("widget", Inputs')

ChangeSiteDepth ==
    \E v \in SiteValues(20) \ {site_depth} :
        /\ site_depth' = v
        /\ UNCHANGED <<location, population, target_room_type, site_width,
                       insulation, window_ratio, use_pv, pv_slider>>
        /\ ScriptRun("widget", Inputs')

ChangeInsulation ==
    \E v \in InsulationValues \ {insulation} :
        /\ insulation' = v
        /\ UNCHANGED <<location, population, target_room_type, site_width,
                       site_depth, window_ratio, use_pv, pv_slider>>
        /\ ScriptRun("widget", Inputs')

ChangeWindowRatio ==
    \E v \in WindowValues \ {window_ratio} :
        /\ window_ratio' = v
        /\ UNCHANGED <<location, population, target_room_type, site_width,
                       site_depth, insulation, use_pv, pv_slider>>
        /\ ScriptRun("widget", Inputs')

\* the checkbox; the slider is drawn only while it is set, and a widget that
\* a run does not draw starts again from its default (50)
ToggleUsePv ==
    /\ use_pv' = ~use_pv
    /\ pv_slider' = 50
    /\ UNCHANGED <<location, population, target_room_type, site_width,
                   site_depth, insulation, window_ratio>>
    /\ ScriptRun("widget", Inputs')

ChangePvSlider ==
    /\ use_pv
    /\ \E v \in PvSliderValues \ {pv_slider} :
        /\ pv_slider' = v
        /\ UNCHANGED <<location, population, target_room_type, site_width,
                       site_depth, insulation, window_ratio, use_pv>>
        /\ ScriptRun("widget", Inputs')

\* the button "generate the optimal scheme"
ClickRun ==
    /\ UNCHANGED widgets
    /\ ScriptRun("button", Inputs)

Next ==
    \/ ChangeLocation
    \/ ChangePopulation
    \/ ChangeRoomType
    \/ ChangeSiteWidth
    \/ ChangeSiteDepth
    \/ ChangeInsulation
    \/ ChangeWindowRatio
    \/ ToggleUsePv
    \/ ChangePvSlider
    \/ ClickRun

Spec == Init /\ [][Next]_vars

(***************************************************************************)
(* calculate_metrics called directly.  The function checks no argument, so *)
(* the calls also take insulation thicknesses outside the slider's range   *)
(* (0 to 20 * MaxApiInsSteps mm), where the floor of design_eui and the    *)
(* payback sentinel are reached.                                           *)
(***************************************************************************)
ApiInsulation == {20 * k : k \in 0..MaxApiInsSteps}
ApiArgs ==
    {Args(w, d, ins, wwr, room, pv, pop, loc) :
        w \in SiteValues(26), d \in SiteValues(20), ins \in ApiInsulation,
        wwr \in WindowValues, room \in RoomTypes,
        pv \in {0} \cup {v \div 5 : v \in PvSliderValues},
        pop \in PopulationValues, loc \in Locations}

InitApi ==
    /\ PageLoad
    /\ args \in ApiArgs
    /\ ret = NoMetrics

Call ==
    /\ ret = NoMetrics
    /\ ret' = calculate_metrics(args)
    /\ UNCHANGED <<args, widgets, run>>

NextApi == Call

SpecApi == InitApi /\ [][NextApi]_vars

(***************************************************************************)
(* The declared ranges of the two sliders the monotonicity claims vary.    *)
(***************************************************************************)
PvSliderRange == {10 + 5 * k : k \in 0..14}
InsulationRange == {50 + 10 * k : k \in 0..15}
Shown == page = "results"

(***************************************************************************)
(* Claims.                                                                 *)
(***************************************************************************)

\* C1: for every input inside the widget ranges, calculate_metrics returns
\* net_eui >= 0 and eui (design EUI) >= 45.
C1_EuiBounds ==
    Shown => /\ metrics.net_eui >= 0
             /\ metrics.eui >= 45 * EuiDen(Inputs)
\* the thickest insulation with the largest photovoltaic share, where both
\* values are lowest, has been computed
C1_Witness ==
    /\ Shown
    /\ insulation = 200 /\ use_pv /\ pv_slider = 80
    /\ metrics.net_eui > 0
    /\ metrics.eui > 45 * EuiDen(Inputs)

\* C2 as stated: payback is 99 whenever saving_year <= 0, and otherwise
\* payback is (design cost - baseline cost) / saving_year, the costs being
\* the function's design_cost and base_cost.
C2_PaybackIsCostOverSaving ==
    ret # NoMetrics =>
        IF saving_year(args) <= 0
        THEN REqInt(ret.payback, 99)
        ELSE ret.payback = Ratio(WScale(W(ret.cost - base_cost(args)), 4),
                                  WScale(W(saving_year(args)), 5))
\* C2 amended: payback is 99 whenever saving_year <= 0, and otherwise
\* payback is (design cost - baseline cost) * 10000 / saving_year (the costs
\* are in units of 10000, the saving in units of 1).
C2_PaybackAmended ==
    ret # NoMetrics =>
        IF saving_year(args) <= 0
        THEN REqInt(ret.payback, 99)
        ELSE /\ ret.payback.d = WScale(W(saving_year(args)), 5)
             /\ ret.payback.n
                    = WScale(WScale(W(ret.cost - base_cost(args)), 10000), 4)
\* a call whose design saves nothing has returned the sentinel
C2_Witness ==
    /\ ret # NoMetrics
    /\ saving_year(args) < 0
    /\ REqInt(ret.payback, 99)

\* C3 as stated: the six radar scores of a result are each at most 100 and
\* at least their floor (se 60, sroi 50, ssp 70, scom 60; sc and spv 0).
C3_ScoresClamped ==
    Shown =>
        LET r == radar(metrics, Inputs) IN
        /\ RLeqInt(r.sc, 100) /\ RGeqInt(r.sc, 0)
        /\ r.se <= 100 * 10 * EuiDen(Inputs) /\ r.se >= 60 * 10 * EuiDen(Inputs)
        /\ r.spv <= 100 * 2 /\ r.spv >= 0
        /\ RLeqInt(r.sroi, 100) /\ RGeqInt(r.sroi, 50)
        /\ RLeqInt(r.ssp, 100) /\ RGeqInt(r.ssp, 70)
        /\ r.scom <= 100 * 10 /\ r.scom >= 60 * 10

\* C4: with photovoltaics enabled and the other inputs fixed, a larger
\* coverage ratio strictly decreases net_eui, strictly increases pv_gen and
\* never makes net_eui negative.
C4_PvMonotone ==
    (Shown /\ use_pv) =>
        \A b \in PvSliderRange :
            b > pv_slider =>
                LET m2 == calculate_metrics(
                              [Inputs EXCEPT !.pv_r = pv_ratio(TRUE, b)]) IN
                /\ m2.net_eui < metrics.net_eui
                /\ m2.pv_gen > metrics.pv_gen
                /\ m2.net_eui >= 0
\* the lowest design EUI of the ranges, where the photovoltaic yield comes
\* closest to it, has been computed with a coverage that can still grow
C4_Witness ==
    /\ Shown /\ use_pv /\ pv_slider < 80
    /\ insulation = 200 /\ site_width = 50 /\ site_depth = 50
    /\ window_ratio = 9 /\ location = "cangzhou"
    /\ metrics.pv_gen > 0

\* C5: with the other inputs fixed, a larger insulation thickness strictly
\* decreases design EUI while it is above the floor of 45, and once the
\* floor is hit the EUI stays 45 for every larger thickness.
C5_InsulationMonotone ==
    ret # NoMetrics =>
        \A b \in ApiInsulation \cup InsulationRange :
            b > args.ins =>
                LET e2 == design_eui([args EXCEPT !.ins = b]) IN
                /\ ret.eui > 45 * EuiDen(args) => e2 < ret.eui
                /\ ret.eui = 45 * EuiDen(args) => e2 = 45 * EuiDen(args)
\* a call above the floor, from which a larger thickness reaches the floor
C5_Witness ==
    /\ ret # NoMetrics
    /\ args.ins \in InsulationRange
    /\ ret.eui > 45 * EuiDen(args)
    /\ \E b \in ApiInsulation :
        /\ b > args.ins
        /\ design_eui([args EXCEPT !.ins = b]) = 45 * EuiDen(args)
        /\ design_eui([args EXCEPT !.ins = b + 20]) = 45 * EuiDen(args)

\* C6: with photovoltaics disabled, calculate_metrics returns pv_gen = 0 and
\* net_eui equal to eui.
C6_PvDisabled ==
    (Shown /\ ~use_pv) =>
        /\ metrics.pv_gen = 0
        /\ metrics.net_eui = metrics.eui
\* results were computed with the checkbox cleared
C6_Witness == Shown /\ ~use_pv /\ metrics.eui > 0

\* C7 as stated: every script run that follows a change of an input widget
\* calls calculate_metrics on the current widget values and displays the
\* resulting metrics.
C7_ChangeRecomputes ==
    trigger = "widget" =>
        /\ page = "results"
        /\ metrics = calculate_metrics(Inputs)
\* C7 amended: a script run computes and displays metrics only when the
\* button caused it, and then from the current widget values; a run that
\* follows a widget change (or the page load) shows the prompt and no
\* metrics.  So the metrics on display are always those of the current
\* inputs.
C7_RecomputeOnClick ==
    /\ trigger = "button" =>
        /\ run_btn /\ page = "results"
        /\ metrics = calculate_metrics(Inputs)
    /\ trigger # "button" =>
        /\ ~run_btn /\ page = "intro"
        /\ metrics = NoMetrics
\* a widget was changed away from its default and the run showed the prompt
C7_Witness ==
    /\ trigger = "widget"
    /\ insulation # 150
    /\ page = "intro"

\* C8 as stated: the annual savings shown in the economic conclusion panel
\* (saved_money) equal saving_year, (baseline EUI - net EUI) * area * 0.55.
C8_SavedMoneyIsSavingYear ==
    Shown => saved_money(metrics, Inputs) = saving_year(Inputs)

\* C9: for every input inside the widget ranges saving_year is strictly
\* positive and design cost exceeds baseline cost, so payback is the
\* quotient, never the sentinel, and strictly positive.
C9_SavingPositive ==
    Shown =>
        /\ saving_year(Inputs) > 0
        /\ metrics.cost > base_cost(Inputs)
        /\ metrics.payback.d = WScale(W(saving_year(Inputs)), 5)
        /\ WPos(metrics.payback.n) /\ WPos(metrics.payback.d)
\* the input with the smallest saving (thinnest insulation, smallest site,
\* largest window deviation, no photovoltaics) has been computed
C9_Witness ==
    /\ Shown
    /\ insulation = 50 /\ site_width = 16 /\ site_depth = 16
    /\ window_ratio = 16 /\ ~use_pv
    /\ RGreaterInt(metrics.payback, 99)

\* C10: for every input inside the widget ranges carbon_total is strictly
\* less than carbon_base, so percent_c is strictly between 0 and 100 and
\* the carbon score sc is not negative.
C10_CarbonReduced ==
    Shown =>
        /\ WLess(metrics.carbon_total, metrics.carbon_base)
        /\ RGreaterInt(percent_c(metrics), 0)
        /\ RLessInt(percent_c(metrics), 100)
        /\ RGeqInt(sc(metrics), 0)
\* the input whose material carbon exceeds the baseline's (thickest
\* insulation, four rooms) has been computed
C10_Witness ==
    /\ Shown
    /\ insulation = 200 /\ target_room_type = "four_room"
    /\ WLess(metrics.carbon_mat_base, metrics.carbon_mat)
    /\ WLess(metrics.carbon_total, metrics.carbon_base)

====
